---- MODULE Spec2Model ----
(***************************************************************************)
(* Model of intersect2d (src/src/lib.rs): the two-segment intersector, the *)
(* brute-force self-intersection drivers and the public facade, with the   *)
(* sweep-line engine (module `algorithm`, whose source is not part of      *)
(* src/) modelled from its specification.                                  *)
(*                                                                         *)
(* Numbers.  A scalar is a pair <<n, d>>: the exact rational n/d in lowest *)
(* terms with d > 0, or a non-finite float when d = 0 (<<1,0>> = +inf,     *)
(* <<-1,0>> = -inf, <<0,0>> = NaN).  Inputs are drawn from a small integer *)
(* grid, where the float operations of the source are evaluated exactly;   *)
(* approx::ulps_eq! on two such values is equality of the values.          *)
(***************************************************************************)
EXTENDS Integers, Sequences, FiniteSets, TLC

(***************************************************************************)
(* Bounds of the model.                                                    *)
(***************************************************************************)
\* number of free segments of a small raw collection
MaxLines == 2
\* number of vertices of a small polyline
MaxPoints == 4

\* the integer grid the small inputs are drawn from
Xs == 0 .. 2
Ys == 0 .. 1

(***************************************************************************)
(* Scalars.                                                                *)
(***************************************************************************)
Abs(n) == IF n < 0 THEN -n ELSE n

RECURSIVE GCD(_, _)
GCD(a, b) == IF b = 0 THEN a ELSE GCD(b, a % b)

\* the scalar n/d, d # 0, in lowest terms
Rat(n, d) ==
    LET g == GCD(Abs(n), Abs(d))
        s == IF d < 0 THEN -1 ELSE 1
    IN  << (s * n) \div g, (s * d) \div g >>

Num(n) == << n, 1 >>
Zero == Num(0)
PosInf == << 1, 0 >>
NaN == << 0, 0 >>

is_finite(a) == a[2] # 0

add(a, b) == Rat(a[1] * b[2] + b[1] * a[2], a[2] * b[2])
sub(a, b) == Rat(a[1] * b[2] - b[1] * a[2], a[2] * b[2])
mul(a, b) == Rat(a[1] * b[1], a[2] * b[2])
\* b # 0
quot(a, b) == Rat(a[1] * b[2], a[2] * b[1])
lt(a, b) == a[1] * b[2] < b[1] * a[2]
gt(a, b) == lt(b, a)
le(a, b) == ~ lt(b, a)

\* approx::ulps_eq! on two finite values
ulps_eq(a, b) == a = b

(***************************************************************************)
(* Coordinates and lines.                                                  *)
(***************************************************************************)
Coordinate(x, y) == [x |-> x, y |-> y]
Line(a, b) == [start |-> a, end |-> b]

\* geo::Coordinate arithmetic
cadd(a, b) == Coordinate(add(a.x, b.x), add(a.y, b.y))
csub(a, b) == Coordinate(sub(a.x, b.x), sub(a.y, b.y))

coord_is_finite(c) == is_finite(c.x) /\ is_finite(c.y)
line_is_finite(l) == coord_is_finite(l.start) /\ coord_is_finite(l.end)

ulps_eq_c(a, b) == ulps_eq(a.x, b.x) /\ ulps_eq(a.y, b.y)

scale_to_coordinate(point, vector, scale) ==
    Coordinate(add(point.x, mul(scale, vector.x)),
               add(point.y, mul(scale, vector.y)))

div(a, b) == Coordinate(quot(a.x, b), quot(a.y, b))

cross_z(a, b) == sub(mul(a.x, b.y), mul(a.y, b.x))

dot(a, b) == add(mul(a.x, b.x), mul(a.y, b.y))

(***************************************************************************)
(* Option<Intersection<T>>: kind is "None", "Intersection" (point a) or    *)
(* "OverLap" (line a .. b).                                                *)
(***************************************************************************)
Origin == Coordinate(Zero, Zero)
None == [kind |-> "None", a |-> Origin, b |-> Origin]
SomeIntersection(c) == [kind |-> "Intersection", a |-> c, b |-> c]
SomeOverLap(a, b) == [kind |-> "OverLap", a |-> a, b |-> b]

\* Intersection::single: an overlap collapses to its start
single(i) == i.a

\* |AB| = |AP| + |PB| (Euclidean lengths): P lies on the closed segment AB,
\* i.e. AP is parallel to AB and P is between A and B.
dist_sum_eq(line, point) ==
    /\ cross_z(csub(point, line.start), csub(line.end, line.start)) = Zero
    /\ le(Zero, dot(csub(point, line.start), csub(line.end, point)))

intersect_line_point(line, point) ==
    IF ulps_eq(line.start.x, point.x) /\ ulps_eq(line.start.y, point.y)
    THEN SomeIntersection(point)
    ELSE IF ulps_eq(line.end.x, point.x) /\ ulps_eq(line.end.y, point.y)
    THEN SomeIntersection(point)
    ELSE IF dist_sum_eq(line, point)
    THEN SomeIntersection(point)
    ELSE None

\* the four AABB tests of intersect: the boxes are strictly disjoint in x or y
aabb_disjoint(one, other) ==
    \/ /\ gt(one.end.x, other.end.x)
       /\ gt(one.end.x, other.start.x)
       /\ gt(one.start.x, other.end.x)
       /\ gt(one.start.x, other.start.x)
    \/ /\ lt(one.end.x, other.end.x)
       /\ lt(one.end.x, other.start.x)
       /\ lt(one.start.x, other.end.x)
       /\ lt(one.start.x, other.start.x)
    \/ /\ gt(one.end.y, other.end.y)
       /\ gt(one.end.y, other.start.y)
       /\ gt(one.start.y, other.end.y)
       /\ gt(one.start.y, other.start.y)
    \/ /\ lt(one.end.y, other.end.y)
       /\ lt(one.end.y, other.start.y)
       /\ lt(one.start.y, other.end.y)
       /\ lt(one.start.y, other.start.y)

\* an overlap clipped to the first segment: t0 and t1 brought into [0, 1]
clip01(t) == IF lt(t, Zero) THEN Zero ELSE IF gt(t, Num(1)) THEN Num(1) ELSE t

intersect_overlap_clipped(p, r, t0, s_dot_r_div_r_dot_r) ==
    SomeOverLap(scale_to_coordinate(p, r, clip01(t0)),
                scale_to_coordinate(p, r, clip01(add(t0, s_dot_r_div_r_dot_r))))

\* the collinear branch, from t0 and t1 - t0 = s.r / r.r: the overlap
\* p + t0 r .. p + t1 r
intersect_overlap(p, r, t0, s_dot_r_div_r_dot_r) ==
    SomeOverLap(scale_to_coordinate(p, r, t0),
                scale_to_coordinate(p, r, add(t0, s_dot_r_div_r_dot_r)))

\* the collinear branch, from r.r: t0 = (q - p) . (r / r.r)
intersect_collinear(p, r, s, q_minus_p, r_dot_r) ==
    intersect_overlap(p, r, dot(q_minus_p, div(r, r_dot_r)),
        quot(dot(s, r), r_dot_r))

\* the parallel branch of intersect (r x s = 0)
intersect_parallel(one, other, p, r, s, q_minus_p) ==
    IF ulps_eq_c(one.start, one.end) \/ ulps_eq_c(other.start, other.end)
    THEN IF /\ ulps_eq_c(one.start, one.end)
            /\ ulps_eq_c(other.start, other.end)
            /\ ulps_eq_c(one.start, other.start)
         THEN SomeIntersection(one.start)
         ELSE IF ulps_eq_c(one.start, one.end)
         THEN intersect_line_point(other, one.start)
         ELSE intersect_line_point(one, other.start)
    ELSE IF ulps_eq(cross_z(q_minus_p, r), Zero)
    THEN intersect_collinear(p, r, s, q_minus_p, dot(r, r))
    ELSE None

\* the general branch of intersect (r x s # 0): the point p + t r with
\* t = (q - p) x (s / (r x s)); no test of t or u follows
intersect_general(p, r, s, q_minus_p, r_cross_s) ==
    SomeIntersection(
        scale_to_coordinate(p, r, cross_z(q_minus_p, div(s, r_cross_s))))

\* intersect, from r x s and q - p
intersect_branches(one, other, p, r, s, q_minus_p, r_cross_s) ==
    IF ulps_eq(r_cross_s, Zero)
    THEN intersect_parallel(one, other, p, r, s, q_minus_p)
    ELSE intersect_general(p, r, s, q_minus_p, r_cross_s)

\* intersect, from p, q, r = one.end - p and s = other.end - q
intersect_vectors(one, other, p, q, r, s) ==
    intersect_branches(one, other, p, r, s, csub(q, p), cross_z(r, s))

intersect(one, other) ==
    IF aabb_disjoint(one, other)
    THEN None
    ELSE intersect_vectors(one, other, one.start, other.start,
             csub(one.end, one.start), csub(other.end, other.start))

(***************************************************************************)
(* geo::Line::intersects(&Line) of the geo crate, as the facade's boolean  *)
(* operations call it: the exact test that two closed segments share a     *)
(* point (orientation predicates, bounding boxes in the collinear case).   *)
(***************************************************************************)
sign(a) == IF a[1] > 0 THEN 1 ELSE IF a[1] < 0 THEN -1 ELSE 0

orient2d(a, b, c) == sign(cross_z(csub(b, a), csub(c, a)))

min_s(a, b) == IF lt(b, a) THEN b ELSE a
max_s(a, b) == IF lt(a, b) THEN b ELSE a

\* c is within the bounding box of l
in_bbox(l, c) ==
    /\ le(min_s(l.start.x, l.end.x), c.x) /\ le(c.x, max_s(l.start.x, l.end.x))
    /\ le(min_s(l.start.y, l.end.y), c.y) /\ le(c.y, max_s(l.start.y, l.end.y))

bbox_intersect(l1, l2) ==
    /\ le(min_s(l1.start.x, l1.end.x), max_s(l2.start.x, l2.end.x))
    /\ le(min_s(l2.start.x, l2.end.x), max_s(l1.start.x, l1.end.x))
    /\ le(min_s(l1.start.y, l1.end.y), max_s(l2.start.y, l2.end.y))
    /\ le(min_s(l2.start.y, l2.end.y), max_s(l1.start.y, l1.end.y))

\* the case of two orientations of l2's ends about l1
geo_intersects_checks(l1, l2, check_1_1, check_1_2) ==
    IF check_1_1 # check_1_2
    THEN orient2d(l2.start, l2.end, l1.start)
             # orient2d(l2.start, l2.end, l1.end)
    ELSE IF check_1_1 = 0
    THEN bbox_intersect(l1, l2)
    ELSE FALSE

geo_intersects(l1, l2) ==
    IF l1.start = l1.end
    THEN orient2d(l2.start, l2.end, l1.start) = 0 /\ in_bbox(l2, l1.start)
    ELSE geo_intersects_checks(l1, l2,
             orient2d(l1.start, l1.end, l2.start),
             orient2d(l1.start, l1.end, l2.end))

(***************************************************************************)
(* The brute-force loops of the facade.  Lines are numbered from 0 as in   *)
(* the source; ls[i + 1] is line i.  `pairs` counts the pairs (l1, l2) the *)
(* inner loop has visited.                                                 *)
(***************************************************************************)
\* an endpoint test that compares the start points only
shares_end_point_starts(l1, l2) == ulps_eq_c(l1.start, l2.start)

\* the endpoint test of the exclusive loops
shares_end_point(l1, l2) ==
    \/ ulps_eq_c(l1.start, l2.start)
    \/ ulps_eq_c(l1.start, l2.end)
    \/ ulps_eq_c(l1.end, l2.start)
    \/ ulps_eq_c(l1.end, l2.end)

\* a record that lists its indices as `vec![l2.0, l1.0]`
IntersectionRecord_swapped(pt, idx) ==
    [pt |-> pt, idx |-> [k \in 1 .. Len(idx) |-> idx[Len(idx) + 1 - k]]]

IntersectionRecord(pt, idx) == [pt |-> pt, idx |-> idx]

\* the pairs (l1.0, l2.0) in the order the nested loops
\* `for l1 in enumerate() { for l2 in enumerate().skip(l1.0 + 1) {..} }`
\* visit them, for n lines, from line i on
\* the inner loop with `skip(l1.0)`: a line is paired with itself
RECURSIVE pair_order_skip(_, _)
pair_order_skip(n, i) ==
    IF i >= n
    THEN << >>
    ELSE [k \in 1 .. (n - i) |-> << i, i + k - 1 >>] \o pair_order_skip(n, i + 1)

\* the inner loop without `skip`: a pair is visited from both its lines
RECURSIVE pair_order_both(_, _)
pair_order_both(n, i) ==
    IF i >= n
    THEN << >>
    ELSE SelectSeq([k \in 1 .. n |-> << i, k - 1 >>], LAMBDA p : p[2] # i)
             \o pair_order_both(n, i + 1)

RECURSIVE pair_order(_, _)
pair_order(n, i) ==
    IF i >= n
    THEN << >>
    ELSE [k \in 1 .. (n - 1 - i) |-> << i, i + k >>] \o pair_order(n, i + 1)

\* loops that never `continue`
skipped_never(ls, exclusive, p) == FALSE

\* the exclusive loops `continue` on a pair that shares an end point
skipped(ls, exclusive, p) ==
    exclusive /\ shares_end_point(ls[p[1] + 1], ls[p[2] + 1])

\* `if l1.1.intersects(l2) { return Ok(true) }`
\* nf: what geo's intersects answers on a line with a non-finite coordinate
bool_hit(ls, exclusive, nf, p) ==
    /\ ~ skipped(ls, exclusive, p)
    /\ IF line_is_finite(ls[p[1] + 1]) /\ line_is_finite(ls[p[2] + 1])
       THEN geo_intersects(ls[p[1] + 1], ls[p[2] + 1])
       ELSE nf

\* the boolean loops return at the first of the pairs that intersect (hits:
\* their places in the order), or run through all pairs
bool_loop_result(order, hits) ==
    IF hits = {}
    THEN [bool |-> FALSE, pairs |-> Len(order)]
    ELSE [bool |-> TRUE, pairs |-> CHOOSE k \in hits : \A m \in hits : k <= m]

bool_loop_order(ls, exclusive, nf, order) ==
    bool_loop_result(order,
        {k \in 1 .. Len(order) : bool_hit(ls, exclusive, nf, order[k])})

bool_loop(ls, exclusive, nf) ==
    bool_loop_order(ls, exclusive, nf, pair_order(Len(ls), 0))

\* `if let Some(i) = intersect(l1.1, l2.1) { rv.push((i.single(), vec![..])) }`
record_hit(ls, exclusive, p) ==
    /\ ~ skipped(ls, exclusive, p)
    /\ intersect(ls[p[1] + 1], ls[p[2] + 1]).kind # "None"

\* the records pushed for the pairs that intersect, in order
record_loop_result(ls, order, hits) ==
    [rv |-> [k \in 1 .. Len(hits) |->
                IntersectionRecord(
                    single(intersect(ls[hits[k][1] + 1], ls[hits[k][2] + 1])),
                    hits[k])],
     pairs |-> Len(order)]

\* the inclusive loops with the `continue` of the exclusive ones
record_loop_order_exclusive(ls, exclusive, order) ==
    record_loop_result(ls, order,
        SelectSeq(order, LAMBDA p : record_hit(ls, TRUE, p)))

record_loop_order(ls, exclusive, order) ==
    record_loop_result(ls, order,
        SelectSeq(order, LAMBDA p : record_hit(ls, exclusive, p)))

\* the enumerating loops: a record is pushed for every pair that intersects
record_loop(ls, exclusive) ==
    record_loop_order(ls, exclusive, pair_order(Len(ls), 0))

(***************************************************************************)
(* The sweep engine, algorithm::AlgorithmData.  Its source is not part of  *)
(* src/: the definitions of this section follow the specification          *)
(* (spec.md, sections 4.4, 5, 6 and 7).                                    *)
(***************************************************************************)
\* the sweep order: increasing y, ties by increasing x
sweep_lt(a, b) == lt(a.y, b.y) \/ (a.y = b.y /\ lt(a.x, b.x))

upper(l) == IF sweep_lt(l.end, l.start) THEN l.end ELSE l.start
lower(l) == IF sweep_lt(l.end, l.start) THEN l.start ELSE l.end

Event(pt, starting, ending, intersecting) ==
    [pt |-> pt, starting |-> starting, ending |-> ending,
     intersecting |-> intersecting]

\* an insertion that never merges
queue_insert_no_merge(queue, ev) == queue \cup {ev}

\* insertion into the event queue: an event at a point already present merges
queue_insert(queue, ev) ==
    IF \E e \in queue : ulps_eq_c(e.pt, ev.pt)
    THEN LET old == CHOOSE e \in queue : ulps_eq_c(e.pt, ev.pt)
         IN  (queue \ {old}) \cup
                 {Event(old.pt, old.starting \cup ev.starting,
                        old.ending \cup ev.ending,
                        old.intersecting \cup ev.intersecting)}
    ELSE queue \cup {ev}

\* 4.4.3: every segment starts at its upper and ends at its lower endpoint;
\* the queue of the first n lines
RECURSIVE init_queue(_, _)
init_queue(ls, n) ==
    IF n = 0
    THEN {}
    ELSE queue_insert(
             queue_insert(init_queue(ls, n - 1),
                 Event(upper(ls[n]), {n - 1}, {}, {})),
             Event(lower(ls[n]), {}, {n - 1}, {}))

\* a queue keyed by x, then y
first_event_x_major(queue) ==
    CHOOSE e \in queue :
        \A f \in queue :
            \/ f = e
            \/ lt(e.pt.x, f.pt.x)
            \/ (e.pt.x = f.pt.x /\ lt(e.pt.y, f.pt.y))

first_event(queue) ==
    CHOOSE e \in queue : \A f \in queue : f = e \/ sweep_lt(e.pt, f.pt)

\* the segment-point test of 4.2
on_segment(l, pt) == intersect_line_point(l, pt).kind # "None"

is_horizontal(l) == l.start.y = l.end.y

\* the status key: x of the segment on the sweep line at y
x_at(l, y) ==
    IF is_horizontal(l)
    THEN min_s(l.start.x, l.end.x)
    ELSE add(l.start.x,
             mul(sub(y, l.start.y),
                 quot(sub(l.end.x, l.start.x), sub(l.end.y, l.start.y))))

\* a and b both pass through the event point: a is left of b below it
below_lt(ls, a, b) ==
    LET la == ls[a + 1]
        lb == ls[b + 1]
        da == quot(sub(lower(la).x, upper(la).x), sub(lower(la).y, upper(la).y))
        db == quot(sub(lower(lb).x, upper(lb).x), sub(lower(lb).y, upper(lb).y))
    IN  IF is_horizontal(la) \/ is_horizontal(lb)
        THEN IF is_horizontal(la) /\ is_horizontal(lb)
             THEN a < b
             ELSE is_horizontal(lb)
        ELSE lt(da, db) \/ (da = db /\ a < b)

RECURSIVE sort_below(_, _)
sort_below(ls, set) ==
    IF set = {}
    THEN << >>
    ELSE LET m == CHOOSE a \in set :
                      \A b \in set : b = a \/ below_lt(ls, a, b)
         IN  << m >> \o sort_below(ls, set \ {m})

RECURSIVE sort_indices(_)
sort_indices(set) ==
    IF set = {}
    THEN << >>
    ELSE LET m == CHOOSE a \in set : \A b \in set : a <= b
         IN  << m >> \o sort_indices(set \ {m})

\* the elements of a sequence
Range(seq) == {seq[k] : k \in 1 .. Len(seq)}

\* the candidate `hit` of the adjacent status segments a and b is a future
\* crossing strictly below the event point pt: it is enqueued
enqueue_crossing(ls, queue, a, b, pt, hit) ==
    IF /\ hit.kind = "Intersection"
       /\ on_segment(ls[a + 1], hit.a)
       /\ on_segment(ls[b + 1], hit.a)
       /\ sweep_lt(pt, hit.a)
    THEN queue_insert(queue, Event(hit.a, {}, {}, {a, b}))
    ELSE queue

find_new_event(ls, queue, a, b, pt) ==
    enqueue_crossing(ls, queue, a, b, pt, intersect(ls[a + 1], ls[b + 1]))

\* two segments that overlap collinearly
collinear_pair(ls, a, b) == intersect(ls[a + 1], ls[b + 1]).kind = "OverLap"

AlgorithmData_default ==
    [state |-> "Configured",
     ignore_end_point_intersections |-> FALSE,
     stop_at_first_intersection |-> FALSE,
     lines |-> << >>,
     queue |-> {},
     status |-> << >>,
     result |-> << >>,
     overlaps |-> {},
     popped |-> << >>]

\* C of 4.4.4: the segments passing through the event point that neither
\* start nor end there
crossing_segments(ad, ev) ==
    (ev.intersecting \cup
        {s \in Range(ad.status) : on_segment(ad.lines[s + 1], ev.pt)})
        \ (ev.starting \cup ev.ending)

\* 4.4.5 and the overlap rule of 4.4.4: the event with contributors all
\* (C the crossing ones) emits a record
emits(ad, all, C) ==
    /\ Cardinality(all) >= 2
    /\ ~ (Cardinality(all) = 2 /\ all \in ad.overlaps)
    /\ (ad.ignore_end_point_intersections => C # {})

\* the pairs of contributors that overlap collinearly
overlapping_pairs(ls, all) ==
    {p \in SUBSET all :
        \E a, b \in p : a < b /\ p = {a, b} /\ collinear_pair(ls, a, b)}

\* the event is popped; its record, if it emits one, is appended
record_event(ad, ev, all, C) ==
    IF emits(ad, all, C)
    THEN [ad EXCEPT
             !.queue = @ \ {ev},
             !.popped = Append(@, ev.pt),
             !.result = Append(@, IntersectionRecord(ev.pt, sort_indices(all))),
             !.overlaps = @ \cup overlapping_pairs(ad.lines, all)]
    ELSE [ad EXCEPT !.queue = @ \ {ev}, !.popped = Append(@, ev.pt)]

\* steps 4 and 5: the new adjacencies of the status left \o mid \o right are
\* tested for future crossings
new_adjacencies(ls, queue, pt, left, mid, right) ==
    IF mid = << >>
    THEN IF left # << >> /\ right # << >>
         THEN find_new_event(ls, queue, left[Len(left)], right[1], pt)
         ELSE queue
    ELSE IF left # << >> /\ right # << >>
    THEN find_new_event(ls,
             find_new_event(ls, queue, left[Len(left)], mid[1], pt),
             mid[Len(mid)], right[1], pt)
    ELSE IF left # << >>
    THEN find_new_event(ls, queue, left[Len(left)], mid[1], pt)
    ELSE IF right # << >>
    THEN find_new_event(ls, queue, mid[Len(mid)], right[1], pt)
    ELSE queue

\* step 2: mid is inserted between the segments left and right of the point
place_segments(ad, pt, left, mid, right) ==
    [ad EXCEPT
        !.status = left \o mid \o right,
        !.queue = new_adjacencies(ad.lines, @, pt, left, mid, right)]

\* steps 1 and 2: the status without L and C (rest), U and C inserted (ins)
update_status(ad, pt, rest, ins) ==
    place_segments(ad, pt,
        SelectSeq(rest, LAMBDA s : lt(x_at(ad.lines[s + 1], pt.y), pt.x)),
        sort_below(ad.lines, ins),
        SelectSeq(rest, LAMBDA s : ~ lt(x_at(ad.lines[s + 1], pt.y), pt.x)))

\* the event ev with U, L and C
handle_sets(ad, ev, U, L, C) ==
    update_status(record_event(ad, ev, U \cup L \cup C, C), ev.pt,
        SelectSeq(ad.status, LAMBDA s : s \notin (L \cup C)),
        (U \cup C) \ L)

handle_popped(ad, ev) ==
    handle_sets(ad, ev, ev.starting, ev.ending, crossing_segments(ad, ev))

\* 4.4.4: one event is popped and handled
handle_event(ad) == handle_popped(ad, first_event(ad.queue))

\* the sweep is over: the queue is drained, or the first record stops it
sweep_done(ad) ==
    \/ ad.queue = {}
    \/ ad.stop_at_first_intersection /\ ad.result # << >>

RECURSIVE run_sweep(_)
run_sweep(ad) ==
    IF sweep_done(ad)
    THEN [ad EXCEPT !.state = "Computed"]
    ELSE run_sweep(handle_event(ad))

(***************************************************************************)
(* The engine's interface (4.4.7, 6, 7).  A call returns [err, ad, recs]:  *)
(* err = "" for Ok, else the error's name; ad is the engine after the      *)
(* call; recs is the result iterator's content.                            *)
(***************************************************************************)
Returned(err, ad, recs) == [err |-> err, ad |-> ad, recs |-> recs]

\* setters are valid only in Configured
with_ignore_end_point_intersections(ad, v) ==
    IF ad.state = "Configured"
    THEN Returned("", [ad EXCEPT !.ignore_end_point_intersections = v], << >>)
    ELSE Returned("InternalError", ad, << >>)

with_stop_at_first_intersection(ad, v) ==
    IF ad.state = "Configured"
    THEN Returned("", [ad EXCEPT !.stop_at_first_intersection = v], << >>)
    ELSE Returned("InternalError", ad, << >>)

\* with_lines and with_ref_lines: the segments are validated and bound, the
\* event queue is initialized
with_lines(ad, ls) ==
    IF ad.state # "Configured"
    THEN Returned("InternalError", ad, << >>)
    ELSE IF \E k \in 1 .. Len(ls) : ~ line_is_finite(ls[k])
    THEN Returned("InvalidData", ad, << >>)
    ELSE Returned("",
             [ad EXCEPT !.state = "Loaded", !.lines = ls,
                        !.queue = init_queue(ls, Len(ls))],
             << >>)

\* results that can be taken again: Drained is not guarded
take_results_again(ad) ==
    IF ad.state \in {"Computed", "Drained"}
    THEN Returned("", [ad EXCEPT !.state = "Drained"], ad.result)
    ELSE Returned("InternalError", ad, << >>)

\* the result iterator is taken, once
take_results(ad) ==
    IF ad.state = "Computed"
    THEN Returned("", [ad EXCEPT !.state = "Drained", !.result = << >>],
             ad.result)
    ELSE IF ad.state = "Drained"
    THEN Returned("ResultsAlreadyTaken", ad, << >>)
    ELSE Returned("InternalError", ad, << >>)

\* compute runs the sweep to completion and hands out the result iterator
compute(ad) ==
    IF ad.state = "Loaded"
    THEN take_results(run_sweep(ad))
    ELSE take_results(ad)

(***************************************************************************)
(* The facade.  A result is [status, bool, recs, path, pairs]: status is   *)
(* "Ok" or the error's name ("none": not called), bool the answer of a     *)
(* boolean operation, recs the records of an enumerating one, path the     *)
(* strategy the call took and pairs the pairs the brute-force loop visited.*)
(***************************************************************************)
\* `if self.len() < 25`
SweepThreshold == 25

Result(status, bool, recs, path, pairs, calls) ==
    [status |-> status, bool |-> bool, recs |-> recs, path |-> path,
     pairs |-> pairs, calls |-> calls]

NoResult == Result("none", FALSE, << >>, "none", 0, << >>)

\* a call made on the engine: its name, its argument (the number of lines
\* for with_lines, none for compute) and the state the engine was in
Call(name, arg, state) == [call |-> name, arg |-> arg, state |-> state]

\* what a chain of calls has returned so far (r), and the calls it has made
Chain(r, calls) ==
    [err |-> r.err, ad |-> r.ad, recs |-> r.recs, calls |-> calls]

\* AlgorithmData::default().with_ignore_end_point_intersections(v)?
default_with_ignore_end_point_intersections(v) ==
    Chain(with_ignore_end_point_intersections(AlgorithmData_default, v),
        << Call("with_ignore_end_point_intersections", v,
               AlgorithmData_default.state) >>)

\* `.compute()` on the engine a chain of `?` calls left
and_compute(r) ==
    IF r.err # ""
    THEN r
    ELSE Chain(compute(r.ad),
             Append(r.calls, Call("compute", FALSE, r.ad.state)))

\* `.with_lines(ls)?`
and_with_lines(r, ls) ==
    IF r.err # ""
    THEN r
    ELSE Chain(with_lines(r.ad, ls),
             Append(r.calls, Call("with_lines", Len(ls), r.ad.state)))

\* `.with_stop_at_first_intersection(v)?`
and_with_stop_at_first_intersection(r, v) ==
    IF r.err # ""
    THEN r
    ELSE Chain(with_stop_at_first_intersection(r.ad, v),
             Append(r.calls,
                 Call("with_stop_at_first_intersection", v, r.ad.state)))

\* AlgorithmData::default().with_ignore_end_point_intersections(ignore)?
\*     .with_stop_at_first_intersection(stop)?.with_lines(ls)?.compute()
sweep_chain(ls, ignore, stop) ==
    and_compute(
        and_with_lines(
            and_with_stop_at_first_intersection(
                default_with_ignore_end_point_intersections(ignore),
                stop),
            ls))

\* Ok(chain.compute()?.next().is_some())
next_is_some(r) ==
    IF r.err # ""
    THEN Result(r.err, FALSE, << >>, "sweep", 0, r.calls)
    ELSE Result("Ok", r.recs # << >>, << >>, "sweep", 0, r.calls)

\* a boolean operation that lets the sweep run to its end
sweep_bool_to_the_end(ls, ignore) == next_is_some(sweep_chain(ls, ignore, FALSE))

sweep_bool(ls, ignore) == next_is_some(sweep_chain(ls, ignore, TRUE))

\* chain.compute()
iterator(r) ==
    IF r.err # ""
    THEN Result(r.err, FALSE, << >>, "sweep", 0, r.calls)
    ELSE Result("Ok", FALSE, r.recs, "sweep", 0, r.calls)

sweep_records(ls, ignore) == iterator(sweep_chain(ls, ignore, FALSE))

\* the sanity check of the brute-force branches
invalid_data == Result("InvalidData", FALSE, << >>, "brute", 0, << >>)

ok_bool(r) == Result("Ok", r.bool, << >>, "brute", r.pairs, << >>)

brute_bool(ls, exclusive, nf) == ok_bool(bool_loop(ls, exclusive, nf))

ok_records(r) == Result("Ok", FALSE, r.rv, "brute", r.pairs, << >>)

brute_records(ls, exclusive) == ok_records(record_loop(ls, exclusive))

\* SelfIntersectingInclusive for Vec<geo::Line<T>>
vec_is_self_intersecting_inclusive(ls, nf) ==
    IF Len(ls) < SweepThreshold
    THEN brute_bool(ls, FALSE, nf)
    ELSE sweep_bool(ls, FALSE)

vec_self_intersections_inclusive(ls) ==
    IF Len(ls) < SweepThreshold
    THEN IF \E k \in 1 .. Len(ls) : ~ line_is_finite(ls[k])
         THEN invalid_data
         ELSE brute_records(ls, FALSE)
    ELSE sweep_records(ls, FALSE)

\* SelfIntersectingExclusive for Vec<geo::Line<T>>
vec_is_self_intersecting(ls) ==
    IF Len(ls) < SweepThreshold
    THEN IF \E k \in 1 .. Len(ls) : ~ line_is_finite(ls[k])
         THEN invalid_data
         ELSE brute_bool(ls, TRUE, FALSE)
    ELSE sweep_bool(ls, TRUE)

vec_self_intersections(ls) ==
    IF Len(ls) < SweepThreshold
    THEN IF \E k \in 1 .. Len(ls) : ~ line_is_finite(ls[k])
         THEN invalid_data
         ELSE brute_records(ls, TRUE)
    ELSE sweep_records(ls, TRUE)

\* geo::LineString::lines(): the segments between consecutive vertices
lines_of(points) ==
    [k \in 1 .. (IF Len(points) = 0 THEN 0 ELSE Len(points) - 1) |->
        Line(points[k], points[k + 1])]

\* SelfIntersectingExclusive for geo::LineString<T>; self.0 is the vertices
linestring_is_self_intersecting(points) ==
    IF Len(points) < SweepThreshold
    THEN IF \E k \in 1 .. Len(points) : ~ coord_is_finite(points[k])
         THEN invalid_data
         ELSE brute_bool(lines_of(points), TRUE, FALSE)
    ELSE sweep_bool(lines_of(points), TRUE)

linestring_self_intersections(points) ==
    IF Len(points) < SweepThreshold
    THEN IF \E k \in 1 .. Len(points) : ~ coord_is_finite(points[k])
         THEN invalid_data
         ELSE brute_records(lines_of(points), TRUE)
    ELSE sweep_records(lines_of(points), TRUE)

(***************************************************************************)
(* Inputs.                                                                 *)
(***************************************************************************)
\* the sizes of the large inputs: SweepThreshold - Around ..
\* SweepThreshold + Around - 1
Around == 1

GridPoints == {Coordinate(Num(x), Num(y)) : x \in Xs, y \in Ys}
GridLines == {Line(a, b) : a, b \in GridPoints}

SeqsUpTo(S, n) == UNION {[1 .. k -> S] : k \in 0 .. n}

\* a vertex and a line with one non-finite coordinate
BadPoints ==
    {Coordinate(v, Zero) : v \in {NaN, PosInf}}
        \cup {Coordinate(Zero, v) : v \in {NaN, PosInf}}
DiagLine == Line(Coordinate(Num(0), Num(0)), Coordinate(Num(2), Num(1)))
BadLines ==
    {Line(b, DiagLine.end) : b \in BadPoints}
        \cup {Line(DiagLine.start, b) : b \in BadPoints}

\* segments and vertices far from the grid that meet nothing but their
\* neighbours in a polyline: they bring an input up to the threshold
PadLine(k) ==
    Line(Coordinate(Num(10 + 2 * k), Num(10)),
         Coordinate(Num(11 + 2 * k), Num(11)))
PadPoint(k) == Coordinate(Num(10 + k), Num(10 + (k % 2)))
Padded(core, n, Pad(_)) ==
    [k \in 1 .. n |-> IF k <= Len(core) THEN core[k] ELSE Pad(k - Len(core) - 1)]

NearThreshold == (SweepThreshold - Around) .. (SweepThreshold + Around - 1)

VecInput(ls) == [kind |-> "Vec", lines |-> ls, points |-> << >>]
LineStringInput(ps) == [kind |-> "LineString", lines |-> << >>, points |-> ps]

SmallVecs ==
    SeqsUpTo(GridLines, MaxLines)
        \cup {lines_of(ps) : ps \in SeqsUpTo(GridPoints, MaxPoints)}
SmallLineStrings == SeqsUpTo(GridPoints, MaxPoints)
BadVecs ==
    {<< b >> : b \in BadLines}
        \cup {<< b, l >> : b \in BadLines, l \in GridLines}
        \cup {<< l, b >> : b \in BadLines, l \in GridLines}
BadLineStrings ==
    {<< b >> : b \in BadPoints}
        \cup {<< b, a >> : b \in BadPoints, a \in GridPoints}
        \cup {<< a, b, c >> : b \in BadPoints, a \in GridPoints, c \in GridPoints}
LargeVecs ==
    {Padded(<< DiagLine, l >>, n, PadLine) : l \in GridLines, n \in NearThreshold}
        \cup {Padded(<< l, b >>, n, PadLine) :
                  l \in {DiagLine}, b \in BadLines, n \in NearThreshold}
LargeLineStrings ==
    {Padded(<< a, b, Origin >>, n, PadPoint) :
         a \in GridPoints, b \in GridPoints, n \in NearThreshold}
        \cup {Padded(<< Origin, b >>, n, PadPoint) :
                  b \in BadPoints, n \in NearThreshold}

\* the axis-aligned unit square of the doctests, a closed polyline
UnitSquare ==
    << Coordinate(Num(0), Num(0)), Coordinate(Num(1), Num(0)),
       Coordinate(Num(1), Num(1)), Coordinate(Num(0), Num(1)),
       Coordinate(Num(0), Num(0)) >>

Inputs ==
    {VecInput(ls) :
         ls \in SmallVecs \cup BadVecs \cup LargeVecs \cup {lines_of(UnitSquare)}}
        \cup {LineStringInput(ps) :
                  ps \in SmallLineStrings \cup BadLineStrings
                             \cup LargeLineStrings \cup {UnitSquare}}

\* the segments of an input
segments(in) == IF in.kind = "Vec" THEN in.lines ELSE lines_of(in.points)

(***************************************************************************)
(* State: a caller holds one input and calls the facade's operations on    *)
(* it, each once; results[op] is what op returned.  The operations share   *)
(* no state, so the caller calls them in one order, that of the source.    *)
(***************************************************************************)
VARIABLES input, results, ad, pc, ret

vars == << input, results, ad, pc, ret >>

Operations ==
    {"is_self_intersecting", "self_intersections",
     "is_self_intersecting_inclusive", "self_intersections_inclusive"}

\* the operations implemented for an input kind, in source order
OperationsOf(kind) ==
    IF kind = "Vec"
    THEN << "is_self_intersecting_inclusive", "self_intersections_inclusive",
            "is_self_intersecting", "self_intersections" >>
    ELSE << "is_self_intersecting", "self_intersections" >>

\* the engine a caller drives directly: ad is the AlgorithmData, pc is
\* "compute" while its compute is sweeping, ret is what the last call returned
InitEngine ==
    /\ ad = AlgorithmData_default
    /\ pc = "idle"
    /\ ret = [err |-> "", recs |-> << >>, taken |-> FALSE]

Init ==
    /\ input \in Inputs
    /\ results = [op \in Operations |-> NoResult]
    /\ InitEngine

called == Cardinality({op \in Operations : results[op].status # "none"})

Returns(op, r) ==
    /\ called < Len(OperationsOf(input.kind))
    /\ op = OperationsOf(input.kind)[called + 1]
    /\ results' = [results EXCEPT ![op] = r]
    /\ UNCHANGED << input, ad, pc, ret >>

VecIsSelfIntersectingInclusive ==
    /\ input.kind = "Vec"
    /\ \E nf \in BOOLEAN :
           Returns("is_self_intersecting_inclusive",
               vec_is_self_intersecting_inclusive(input.lines, nf))

VecSelfIntersectionsInclusive ==
    /\ input.kind = "Vec"
    /\ Returns("self_intersections_inclusive",
           vec_self_intersections_inclusive(input.lines))

VecIsSelfIntersecting ==
    /\ input.kind = "Vec"
    /\ Returns("is_self_intersecting", vec_is_self_intersecting(input.lines))

VecSelfIntersections ==
    /\ input.kind = "Vec"
    /\ Returns("self_intersections", vec_self_intersections(input.lines))

LineStringIsSelfIntersecting ==
    /\ input.kind = "LineString"
    /\ Returns("is_self_intersecting",
           linestring_is_self_intersecting(input.points))

LineStringSelfIntersections ==
    /\ input.kind = "LineString"
    /\ Returns("self_intersections",
           linestring_self_intersections(input.points))

Next ==
    \/ VecIsSelfIntersectingInclusive
    \/ VecSelfIntersectionsInclusive
    \/ VecIsSelfIntersecting
    \/ VecSelfIntersections
    \/ LineStringIsSelfIntersecting
    \/ LineStringSelfIntersections

Spec == Init /\ [][Next]_vars

(***************************************************************************)
(* A caller that drives the engine itself, on a small collection: any of   *)
(* the interface's calls in any order.  compute sweeps event by event.     *)
(***************************************************************************)
EngineInputs == {VecInput(ls) : ls \in SmallVecs \cup {<< b >> : b \in BadLines}}

EngineInit ==
    /\ input \in EngineInputs
    /\ results = [op \in Operations |-> NoResult]
    /\ InitEngine

\* a call returns r
EngineReturns(r) ==
    /\ ad' = r.ad
    /\ ret' = [err |-> r.err, recs |-> r.recs,
               taken |-> r.err = "" /\ ad.state = "Computed"]
    /\ UNCHANGED << input, results >>

WithIgnoreEndPointIntersections ==
    /\ pc = "idle"
    /\ pc' = pc
    /\ \E v \in BOOLEAN :
           EngineReturns(with_ignore_end_point_intersections(ad, v))

WithStopAtFirstIntersection ==
    /\ pc = "idle"
    /\ pc' = pc
    /\ \E v \in BOOLEAN : EngineReturns(with_stop_at_first_intersection(ad, v))

WithLines ==
    /\ pc = "idle"
    /\ pc' = pc
    /\ EngineReturns(with_lines(ad, input.lines))

\* compute is called: on a loaded engine the sweep begins, else it returns
Compute ==
    /\ pc = "idle"
    /\ IF ad.state = "Loaded"
       THEN /\ pc' = "compute"
            /\ UNCHANGED << input, results, ad, ret >>
       ELSE /\ pc' = pc
            /\ EngineReturns(compute(ad))

\* compute's loop: one event
HandleEvent ==
    /\ pc = "compute"
    /\ ad.state = "Loaded"
    /\ ~ sweep_done(ad)
    /\ ad' = handle_event(ad)
    /\ UNCHANGED << input, results, pc, ret >>

\* compute's loop is left: the results are held
SweepEnds ==
    /\ pc = "compute"
    /\ ad.state = "Loaded"
    /\ sweep_done(ad)
    /\ ad' = [ad EXCEPT !.state = "Computed"]
    /\ UNCHANGED << input, results, pc, ret >>

\* compute hands out the result iterator
ComputeReturns ==
    /\ pc = "compute"
    /\ ad.state = "Computed"
    /\ pc' = "idle"
    /\ EngineReturns(take_results(ad))

\* the caller that has taken the sweep's records enumerates the same input
\* by brute force, under the engine's end point policy
uncalled == \A op \in Operations : results[op].status = "none"

CompareSelfIntersections ==
    /\ pc = "idle"
    /\ ret.taken
    /\ uncalled
    /\ ad.ignore_end_point_intersections
    /\ results' = [results EXCEPT
                      !["self_intersections"] =
                          brute_records(input.lines, TRUE)]
    /\ UNCHANGED << input, ad, pc, ret >>

CompareSelfIntersectionsInclusive ==
    /\ pc = "idle"
    /\ ret.taken
    /\ uncalled
    /\ ~ ad.ignore_end_point_intersections
    /\ results' = [results EXCEPT
                      !["self_intersections_inclusive"] =
                          brute_records(input.lines, FALSE)]
    /\ UNCHANGED << input, ad, pc, ret >>

EngineNext ==
    \/ WithIgnoreEndPointIntersections
    \/ WithStopAtFirstIntersection
    \/ WithLines
    \/ Compute
    \/ HandleEvent
    \/ SweepEnds
    \/ ComputeReturns
    \/ CompareSelfIntersections
    \/ CompareSelfIntersectionsInclusive

EngineSpec == EngineInit /\ [][EngineNext]_vars

\* compute's loop is at an event
looping == pc = "compute" /\ ad.state = "Loaded" /\ ~ sweep_done(ad)

\* compute runs to completion: its loop, the end of its loop and its return
\* are not left waiting (the weak fairness of HandleEvent is written with
\* its enabling condition, looping)
FairEngineSpec ==
    /\ EngineSpec
    /\ []<>(~ looping) \/ []<><< HandleEvent >>_vars
    /\ WF_vars(SweepEnds)
    /\ WF_vars(ComputeReturns)

(***************************************************************************)
(* Properties of the facade.                                               *)
(***************************************************************************)
is_finite_input(in) == \A k \in 1 .. Len(segments(in)) : line_is_finite(segments(in)[k])

returned(op) == results[op].status # "none"

\* the pairs i < j of positions (0-based) of a collection of n segments
Pairs(n) == {p \in (0 .. n - 1) \X (0 .. n - 1) : p[1] < p[2]}

seg(in, i) == segments(in)[i + 1]

\* an operation that decides and the operation that enumerates agree
agree(decides, enumerates) ==
    (/\ results[decides].status = "Ok"
     /\ results[enumerates].status = "Ok")
        => (results[decides].bool <=> results[enumerates].recs # << >>)

\* C1: on a finite input of fewer than 25 segments, is_self_intersecting
\* returns true exactly when self_intersections returns a record, and
\* is_self_intersecting_inclusive returns true exactly when
\* self_intersections_inclusive returns a record.
C1_BooleanIffRecords ==
    (is_finite_input(input) /\ Len(segments(input)) < SweepThreshold)
        => /\ agree("is_self_intersecting", "self_intersections")
           /\ agree("is_self_intersecting_inclusive",
                    "self_intersections_inclusive")

\* C2: on an input with a non-finite coordinate, every operation of the
\* facade fails with InvalidData, and it has visited no pair of segments.
C2_NonFiniteIsInvalidData ==
    (~ is_finite_input(input))
        => \A op \in Operations :
               returned(op) => /\ results[op].status = "InvalidData"
                               /\ results[op].pairs = 0

\* C3: the number n of segments picks the strategy of every operation:
\* brute force when n < 25, the sweep when n >= 25; so a polyline of 24
\* segments (25 vertices) is handled by brute force.
C3_StrategyBySegmentCount ==
    \A op \in Operations :
        returned(op) =>
            results[op].path = IF Len(segments(input)) < SweepThreshold
                               THEN "brute"
                               ELSE "sweep"

\* some two segments meet, and segments meet at shared end points only
only_touching(in) ==
    /\ \E p \in Pairs(Len(segments(in))) :
           geo_intersects(seg(in, p[1]), seg(in, p[2]))
    /\ \A p \in Pairs(Len(segments(in))) :
           geo_intersects(seg(in, p[1]), seg(in, p[2]))
               => shares_end_point(seg(in, p[1]), seg(in, p[2]))

\* C4, as stated: is_self_intersecting on a raw collection of segments is
\* inclusive, so segments that only touch at shared end points make it
\* return true (on a polyline it is exclusive).
C4_RawCollectionInclusive ==
    (/\ input.kind = "Vec"
     /\ is_finite_input(input)
     /\ results["is_self_intersecting"].status = "Ok"
     /\ results["is_self_intersecting"].path = "brute"
     /\ only_touching(input))
        => results["is_self_intersecting"].bool

\* C4, amended: is_self_intersecting is exclusive on a raw collection of
\* segments as it is on a polyline: its brute-force loop skips the pairs
\* that share an end point, so it returns true exactly when two segments
\* that share no end point intersect, and false when segments only touch
\* at shared end points.
C4_ExclusiveOnBothKinds ==
    (/\ is_finite_input(input)
     /\ results["is_self_intersecting"].status = "Ok"
     /\ results["is_self_intersecting"].path = "brute")
        => (results["is_self_intersecting"].bool
               <=> \E p \in Pairs(Len(segments(input))) :
                       /\ ~ shares_end_point(seg(input, p[1]), seg(input, p[2]))
                       /\ geo_intersects(seg(input, p[1]), seg(input, p[2])))

\* a raw collection whose segments only touch at shared end points, on which
\* is_self_intersecting has returned false
C4_Witness ==
    /\ input.kind = "Vec"
    /\ is_finite_input(input)
    /\ only_touching(input)
    /\ results["is_self_intersecting"].status = "Ok"
    /\ results["is_self_intersecting"].path = "brute"
    /\ ~ results["is_self_intersecting"].bool

\* the records an enumerating operation returned on the brute-force path
brute_recs(op) ==
    IF results[op].status = "Ok" /\ results[op].path = "brute"
    THEN results[op].recs
    ELSE << >>

\* the records an enumerating operation returned, on either path
ok_recs(op) == IF results[op].status = "Ok" THEN results[op].recs ELSE << >>

Enumerating == {"self_intersections", "self_intersections_inclusive"}

\* the indices of a record are two or more valid positions, strictly ascending
valid_indices(idx, n) ==
    /\ Len(idx) >= 2
    /\ \A k \in 1 .. Len(idx) : idx[k] \in 0 .. (n - 1)
    /\ \A k \in 1 .. (Len(idx) - 1) : idx[k] < idx[k + 1]

\* C5: every record of every enumerating operation lists at least two
\* indices, distinct, strictly ascending, each a valid 0-based position of
\* the input collection.
C5_IndicesValid ==
    \A op \in Enumerating :
        \A k \in 1 .. Len(ok_recs(op)) :
            valid_indices(ok_recs(op)[k].idx, Len(segments(input)))

\* both enumerating operations have returned records by brute force
C5_Witness ==
    /\ Len(brute_recs("self_intersections_inclusive")) >= 2
    /\ Len(brute_recs("self_intersections")) >= 1

\* no two records of a sequence of records carry the same point
distinct_points(recs) ==
    \A k \in 1 .. Len(recs) : \A m \in 1 .. Len(recs) :
        k # m => ~ ulps_eq_c(recs[k].pt, recs[m].pt)

\* no two records of a sequence of records carry the same indices
distinct_indices(recs) ==
    \A k \in 1 .. Len(recs) : \A m \in 1 .. Len(recs) :
        k # m => Range(recs[k].idx) # Range(recs[m].idx)

\* C6, as stated: the output has one record per point: no two records
\* carry the same point, also when three or more segments meet at a point.
C6_OneRecordPerPoint ==
    \A op \in Enumerating : distinct_points(ok_recs(op))

\* C6, amended: the sweep's output has one record per point; the
\* brute-force output has one record per pair of segments, so no two of its
\* records carry the same pair of indices (and where three or more segments
\* meet, several of its records carry that point).
C6_OneRecordPerPointOrPair ==
    \A op \in Enumerating :
        /\ results[op].path = "sweep" => distinct_points(ok_recs(op))
        /\ results[op].path = "brute" => distinct_indices(ok_recs(op))

\* brute force has returned two records that carry the same point
C6_Witness ==
    \E op \in Enumerating :
        /\ Len(brute_recs(op)) >= 2
        /\ ~ distinct_points(brute_recs(op))

\* lexicographic order of pairs
pair_lt(p, q) == p[1] < q[1] \/ (p[1] = q[1] /\ p[2] < q[2])

\* C9: brute force returns its records in the order the pairs (i, j), i < j,
\* are enumerated: by i, then by j; and the inclusive operation returns
\* exactly one record for each pair on which the intersector returns a
\* result, none for the other pairs.
C9_PairEnumerationOrder ==
    /\ \A op \in Enumerating :
           \A k \in 1 .. (Len(brute_recs(op)) - 1) :
               pair_lt(brute_recs(op)[k].idx, brute_recs(op)[k + 1].idx)
    /\ (/\ results["self_intersections_inclusive"].status = "Ok"
        /\ results["self_intersections_inclusive"].path = "brute")
           => \A p \in Pairs(Len(segments(input))) :
                  Cardinality(
                      {k \in 1 .. Len(brute_recs("self_intersections_inclusive")) :
                           brute_recs("self_intersections_inclusive")[k].idx = p})
                      = IF intersect(seg(input, p[1]), seg(input, p[2])).kind
                               # "None"
                        THEN 1
                        ELSE 0

\* the inclusive operation has returned records for pairs from two values of i
C9_Witness ==
    \E k \in 1 .. (Len(brute_recs("self_intersections_inclusive")) - 1) :
        brute_recs("self_intersections_inclusive")[k].idx[1]
            < brute_recs("self_intersections_inclusive")[k + 1].idx[1]

(***************************************************************************)
(* Properties of the engine.                                               *)
(***************************************************************************)
\* the records as a set of (point, set of indices)
record_set(recs) == {<< recs[k].pt, Range(recs[k].idx) >> : k \in 1 .. Len(recs)}

\* the points where a point shared by three segments can only be: the end
\* points, and the points where two segments cross
meeting_candidates(ls) ==
    {ls[k].start : k \in 1 .. Len(ls)} \cup {ls[k].end : k \in 1 .. Len(ls)}
        \cup {intersect(ls[p[1] + 1], ls[p[2] + 1]).a :
                  p \in {q \in Pairs(Len(ls)) :
                             intersect(ls[q[1] + 1], ls[q[2] + 1]).kind # "None"}}

\* no point is shared by three or more segments
no_three_way_meeting(ls) ==
    \A c \in meeting_candidates(ls) :
        Cardinality({k \in 1 .. Len(ls) : on_segment(ls[k], c)}) < 3

\* compute has returned all the records of the input, and brute force its own
compared(op) ==
    /\ ret.taken
    /\ ~ ad.stop_at_first_intersection
    /\ results[op].status = "Ok"

\* C7: on an input where no point is shared by three or more segments, the
\* sweep and brute force, under the same end point policy, return the same
\* set of (point, set of indices) records.
C7_DriversAgree ==
    \A op \in Enumerating :
        (compared(op) /\ no_three_way_meeting(input.lines))
            => record_set(ret.recs) = record_set(results[op].recs)

\* C8: the results are handed out once: a call that hands them out leaves
\* the engine Drained, with no results held; in Drained no call changes the
\* engine, what a call returns holds no records, and compute fails with
\* ResultsAlreadyTaken.
C8_ResultsTakenOnce ==
    [][/\ ret'.taken /\ ret' # ret
          => /\ ad.state = "Computed"
             /\ ad'.state = "Drained"
             /\ ad'.result = << >>
       /\ ad.state = "Drained"
          => /\ ad' = ad
             /\ ret' # ret => ret'.recs = << >>
             /\ Compute => ret'.err = "ResultsAlreadyTaken"]_vars

\* the results were handed out, and a later compute has failed
C8_Witness ==
    /\ ad.state = "Drained"
    /\ ad.lines # << >>
    /\ ret.err = "ResultsAlreadyTaken"

\* the sweep order, on a sequence of points: strictly increasing
strictly_increasing(pts) ==
    \A k \in 1 .. (Len(pts) - 1) : sweep_lt(pts[k], pts[k + 1])

\* C10: self_intersections terminates with a finite sequence.  Brute force
\* visits each pair i < j at most once, so it returns at most n(n-1)/2
\* records, no two for the same pair.  In the sweep an event is popped once,
\* the events in the queue are all strictly after the popped one, and the
\* sweep that was begun reaches an empty queue and returns its records.
C10_Terminates ==
    /\ [](\A op \in Enumerating :
              results[op].status = "Ok"
                  => /\ 2 * results[op].pairs
                            <= Len(input.lines) * (Len(input.lines) - 1)
                     /\ Len(results[op].recs) <= results[op].pairs
                     /\ distinct_indices(results[op].recs))
    /\ [](strictly_increasing(ad.popped))
    /\ [][HandleEvent
             => /\ ad'.popped = Append(ad.popped, first_event(ad.queue).pt)
                /\ \A e \in ad'.queue :
                       sweep_lt(first_event(ad.queue).pt, e.pt)]_vars
    /\ (pc = "compute" /\ ~ ad.stop_at_first_intersection)
           ~> (pc = "idle" /\ ret.taken /\ ad.queue = {})

\* the sweep has popped events, among them one it had enqueued, and has
\* returned; brute force has returned records
C10_Witness ==
    /\ ret.taken
    /\ ad.queue = {}
    /\ \E k \in 1 .. Len(ad.popped) :
           \A m \in 1 .. Len(ad.lines) :
               ad.popped[k] \notin {ad.lines[m].start, ad.lines[m].end}
    /\ \E op \in Enumerating : Len(ok_recs(op)) >= 1

(***************************************************************************)
(* Properties of the intersector and of the drivers on particular inputs.  *)
(***************************************************************************)
is_unit_square(in) == segments(in) = lines_of(UnitSquare)

\* the four corners of the unit square, each with its two adjacent segments
UnitSquareCorners ==
    {<< Coordinate(Num(1), Num(0)), {0, 1} >>,
     << Coordinate(Num(1), Num(1)), {1, 2} >>,
     << Coordinate(Num(0), Num(1)), {2, 3} >>,
     << Coordinate(Num(0), Num(0)), {0, 3} >>}

\* C11: on the unit square (0,0)-(1,0)-(1,1)-(0,1)-(0,0), self_intersections
\* returns no record and is_self_intersecting false; and
\* self_intersections_inclusive returns exactly four records, one at each
\* corner with its two adjacent segments, and is_self_intersecting_inclusive
\* true.
C11_UnitSquare ==
    is_unit_square(input)
        => /\ returned("self_intersections")
                 => /\ results["self_intersections"].status = "Ok"
                    /\ results["self_intersections"].recs = << >>
           /\ returned("is_self_intersecting")
                 => /\ results["is_self_intersecting"].status = "Ok"
                    /\ ~ results["is_self_intersecting"].bool
           /\ returned("self_intersections_inclusive")
                 => /\ results["self_intersections_inclusive"].status = "Ok"
                    /\ Len(results["self_intersections_inclusive"].recs) = 4
                    /\ record_set(results["self_intersections_inclusive"].recs)
                           = UnitSquareCorners
           /\ returned("is_self_intersecting_inclusive")
                 => /\ results["is_self_intersecting_inclusive"].status = "Ok"
                    /\ results["is_self_intersecting_inclusive"].bool

\* the four operations have returned on the unit square
C11_Witness ==
    /\ input.kind = "Vec"
    /\ is_unit_square(input)
    /\ \A op \in Operations : returned(op)

\* the point c lies on the closed segment l
lies_on(l, c) == in_bbox(l, c) /\ orient2d(l.start, l.end, c) = 0

\* C12: the point of every record (point, [i, j]) that brute force returns
\* lies on segment i and on segment j (for a crossing of non-parallel
\* segments: t and u are both in [0, 1]).
C12_RecordPointOnBothSegments ==
    \A op \in Enumerating :
        \A k \in 1 .. Len(brute_recs(op)) :
            /\ lies_on(seg(input, brute_recs(op)[k].idx[1]), brute_recs(op)[k].pt)
            /\ lies_on(seg(input, brute_recs(op)[k].idx[2]), brute_recs(op)[k].pt)

\* two segments, neither a point, on one line, with bounding boxes that are
\* not disjoint
collinear_overlapping(one, other) ==
    /\ one.start # one.end
    /\ other.start # other.end
    /\ orient2d(one.start, one.end, other.start) = 0
    /\ orient2d(one.start, one.end, other.end) = 0
    /\ bbox_intersect(one, other)

\* t0 = (q - p) . r / r . r and t1 = t0 + s . r / r . r
overlap_t0(one, other) ==
    quot(dot(csub(other.start, one.start), csub(one.end, one.start)),
         dot(csub(one.end, one.start), csub(one.end, one.start)))

overlap_t1(one, other) ==
    add(overlap_t0(one, other),
        quot(dot(csub(other.end, other.start), csub(one.end, one.start)),
             dot(csub(one.end, one.start), csub(one.end, one.start))))

\* p + t r
point_at(one, t) ==
    Coordinate(add(one.start.x, mul(t, sub(one.end.x, one.start.x))),
               add(one.start.y, mul(t, sub(one.end.y, one.start.y))))

\* the records of a sequence of records for the pair p
records_of_pair(recs, p) == SelectSeq(recs, LAMBDA rec : rec.idx = p)

\* C13: for collinear segments i < j, neither a point, whose bounding boxes
\* are not disjoint, intersect returns the OverLap from p + t0 r to
\* p + t1 r, t0 and t1 not clipped to [0, 1]; and the inclusive brute force
\* returns exactly one record for the pair, at the overlap's start.
C13_CollinearOverlap ==
    (/\ results["self_intersections_inclusive"].status = "Ok"
     /\ results["self_intersections_inclusive"].path = "brute")
        => \A p \in Pairs(Len(segments(input))) :
               collinear_overlapping(seg(input, p[1]), seg(input, p[2]))
                   => /\ intersect(seg(input, p[1]), seg(input, p[2]))
                             = [kind |-> "OverLap",
                                a |-> point_at(seg(input, p[1]),
                                          overlap_t0(seg(input, p[1]),
                                                     seg(input, p[2]))),
                                b |-> point_at(seg(input, p[1]),
                                          overlap_t1(seg(input, p[1]),
                                                     seg(input, p[2])))]
                      /\ records_of_pair(
                             results["self_intersections_inclusive"].recs, p)
                             = << [pt |-> point_at(seg(input, p[1]),
                                              overlap_t0(seg(input, p[1]),
                                                         seg(input, p[2]))),
                                   idx |-> p] >>

\* the inclusive brute force has returned on two collinear segments whose
\* overlap starts beyond the end of the first one: t0 > 1
C13_Witness ==
    /\ results["self_intersections_inclusive"].status = "Ok"
    /\ results["self_intersections_inclusive"].path = "brute"
    /\ \E p \in Pairs(Len(segments(input))) :
           /\ collinear_overlapping(seg(input, p[1]), seg(input, p[2]))
           /\ gt(overlap_t0(seg(input, p[1]), seg(input, p[2])), Num(1))

(***************************************************************************)
(* Properties of the sweep.                                                *)
(***************************************************************************)
\* the event of the queue at the point pt
events_at(queue, pt) == {e \in queue : ulps_eq_c(e.pt, pt)}

\* the event e2 holds all the segments the event e1 holds
holds_all(e1, e2) ==
    /\ e1.starting \subseteq e2.starting
    /\ e1.ending \subseteq e2.ending
    /\ e1.intersecting \subseteq e2.intersecting

\* C14: the event queue holds at most one event per point.  The events of
\* the end points are merged by union: before the first event is popped,
\* every segment is among the starting ones of the one event at its upper
\* end and among the ending ones of the one event at its lower end.  And an
\* insertion loses nothing: after an event is handled, every other event of
\* the queue is still there, at its point, with all the segments it held.
C14_OneEventPerPoint ==
    /\ [](\A e1 \in ad.queue : events_at(ad.queue, e1.pt) = {e1})
    /\ []((ad.state = "Loaded" /\ ad.popped = << >>)
             => \A k \in 1 .. Len(ad.lines) :
                    /\ \E e \in events_at(ad.queue, upper(ad.lines[k])) :
                           (k - 1) \in e.starting
                    /\ \E e \in events_at(ad.queue, lower(ad.lines[k])) :
                           (k - 1) \in e.ending)
    /\ [][HandleEvent
             => \A e1 \in ad.queue \ {first_event(ad.queue)} :
                    \E e2 \in events_at(ad'.queue, e1.pt) : holds_all(e1, e2)]_vars

\* a crossing was inserted at a point where an end point's event was: the
\* event of the queue holds them both
C14_Witness ==
    \E e \in ad.queue :
        /\ e.intersecting # {}
        /\ e.starting \cup e.ending # {}

\* the points of a sequence of records
points_of(recs) == [k \in 1 .. Len(recs) |-> recs[k].pt]

\* C15: the events are consumed in strictly increasing sweep order
\* (increasing y, then increasing x); handling an event enqueues no event
\* at or before it: the events that were not in the queue before are
\* strictly after the one just consumed; and the records are emitted, and
\* returned, in strictly increasing sweep order of their points.
C15_SweepOrder ==
    /\ [](strictly_increasing(ad.popped))
    /\ [][ad'.popped # ad.popped
             => /\ Len(ad'.popped) = Len(ad.popped) + 1
                /\ \A e \in ad'.queue \ ad.queue :
                       sweep_lt(ad'.popped[Len(ad'.popped)], e.pt)]_vars
    /\ [](strictly_increasing(points_of(ad.result)))
    /\ [](strictly_increasing(points_of(ret.recs)))

\* the sweep has returned two records or more, one of them at a crossing it
\* had discovered
C15_Witness ==
    /\ ret.taken
    /\ Len(ret.recs) >= 2
    /\ \E k \in 1 .. Len(ret.recs) :
           \A m \in 1 .. Len(ad.lines) :
               ret.recs[k].pt \notin {ad.lines[m].start, ad.lines[m].end}

(***************************************************************************)
(* Properties of the facade's use of the engine.                           *)
(***************************************************************************)
Exclusive == {"is_self_intersecting", "self_intersections"}
Boolean == {"is_self_intersecting", "is_self_intersecting_inclusive"}

\* the calls of the legal order, for an operation on n lines
legal_calls(op, n) ==
    << Call("with_ignore_end_point_intersections", op \in Exclusive,
           "Configured"),
       Call("with_stop_at_first_intersection", op \in Boolean, "Configured"),
       Call("with_lines", n, "Configured"),
       Call("compute", FALSE, "Loaded") >>

====
